---- MODULE Spec2Model ----
(***************************************************************************)
(* The ticket-id rule of commitlint-rs (src/src/rule/ticket_id.rs).        *)
(*                                                                         *)
(* A text is a sequence of characters; a character is a one-letter string, *)
(* with "LF" and "CR" naming the line feed and the carriage return.        *)
(* Option<T> is a sequence of length at most one: <<>> is None and <<v>>   *)
(* is Some(v).                                                             *)
(***************************************************************************)
EXTENDS Integers, Sequences, FiniteSets

VARIABLES
    self,                  \* the TicketId configuration (&self)
    message,               \* the Message under validation (&Message)
    match_found,           \* validate's local, as it stands at return
    subject_has_ticket,    \* validate's local, as it stands at return
    last_line_has_ticket,  \* validate's local, as it stands at return
    result,                \* what the latest call of validate returned
    calls                  \* number of validate calls made so far

vars == <<self, message, match_found, subject_has_ticket,
          last_line_has_ticket, result, calls>>

(***************************************************************************)
(* Bounds of the model.                                                    *)
(***************************************************************************)
MaxSubjectChunks == 2
MaxBodyChunks == 3
MaxCalls == 2

(***************************************************************************)
(* Option helpers.                                                         *)
(***************************************************************************)
None == <<>>
Some(v) == <<v>>
UnwrapOr(opt, default) == IF opt = None THEN default ELSE opt[1]

(***************************************************************************)
(* The pattern #[A-Z]+-\d+ and Regex::is_match (an unanchored search).     *)
(***************************************************************************)
Upper == {"A"}
Digit == {"1"}

\* The pattern matches a prefix of text[i..]: '#', one or more upper-case
\* letters ending at j-1, '-' at j, and a digit at j+1 (\d+ needs only one).
MatchAt(text, i) ==
    /\ text[i] = "#"
    /\ \E j \in (i + 2)..(Len(text) - 1) :
          /\ \A k \in (i + 1)..(j - 1) : text[k] \in Upper
          /\ text[j] = "-"
          /\ text[j + 1] \in Digit

is_match(text) == \E i \in 1..Len(text) : MatchAt(text, i)

\* Regex::new(JIRA_TICKET_REGEX): the pattern is a valid one, so Ok.
RegexNewOk == TRUE

(***************************************************************************)
(* str::lines(): split after every line feed, then strip the line feed and *)
(* a carriage return before it.  A final line feed opens no further line.  *)
(***************************************************************************)
FirstLF(text) ==
    IF \E i \in 1..Len(text) : text[i] = "LF"
    THEN CHOOSE i \in 1..Len(text) :
             /\ text[i] = "LF"
             /\ \A k \in 1..(i - 1) : text[k] # "LF"
    ELSE 0

RECURSIVE SplitInclusive(_)
SplitInclusive(text) ==
    IF text = <<>> THEN <<>>
    ELSE LET brk == FirstLF(text)
         IN IF brk = 0 THEN <<text>>
            ELSE <<SubSeq(text, 1, brk)>>
                     \o SplitInclusive(SubSeq(text, brk + 1, Len(text)))

StripLineEnding(line) ==
    IF Len(line) > 0 /\ line[Len(line)] = "LF"
    THEN LET w == SubSeq(line, 1, Len(line) - 1)
         IN IF Len(w) > 0 /\ w[Len(w)] = "CR"
            THEN SubSeq(w, 1, Len(w) - 1)
            ELSE w
    ELSE line

Lines(text) ==
    LET parts == SplitInclusive(text)
    IN [i \in 1..Len(parts) |-> StripLineEnding(parts[i])]

\* A plausible slip: the last line that is not empty.
LastLine_NonEmpty(lines) ==
    LET idx == {i \in 1..Len(lines) : lines[i] # <<>>}
    IN IF idx = {} THEN None
       ELSE Some(lines[CHOOSE i \in idx : \A k \in idx : k <= i])

\* A plausible slip: body.lines().next(), the first line.
LastLine_First(lines) == IF lines = <<>> THEN None ELSE Some(lines[1])

\* body.lines().last()
LastLine(lines) == IF lines = <<>> THEN None ELSE Some(lines[Len(lines)])

(***************************************************************************)
(* TicketId::validate, piece by piece.                                     *)
(***************************************************************************)
LEVEL == "Error"
Levels == {"Error", "Warning"}

MsgInvalidRegex == "Invalid regex #[A-Z]+-\\d+: error"
MsgMissing == "Ticket ID is missing in either subject or body of commit message! It should be on last line if inside body, or at the end of subject!"
MsgDuplicatedBody == "Ticket ID is duplicated in body of commit message!"
MsgDuplicatedEither == "Ticket ID is duplicated in either subject or body of commit message!"
MsgLastLine == "Ticket ID should be on last line in body!"

\* A plausible slip: the override is ignored.
ResolveLevel_NoOverride(cfg) == LEVEL

\* self.level.unwrap_or(Self::LEVEL)
ResolveLevel(cfg) == UnwrapOr(cfg.level, LEVEL)

Violation(cfg, msg) == [level |-> ResolveLevel(cfg), message |-> msg]

\* message.subject.clone().unwrap_or_default()
SubjectText(msg) == UnwrapOr(msg.subject, <<>>)

\* A plausible slip: an absent body falls back to the subject.
BodyText_FallbackSubject(msg) == UnwrapOr(msg.body, SubjectText(msg))

\* message.body.clone().unwrap_or(String::new())
BodyText(msg) == UnwrapOr(msg.body, <<>>)

\* A plausible slip: a counter that outlives the call.
MatchFoundInit_Static == match_found

\* let mut match_found = 0;
MatchFoundInit == 0

\* The locals after the subject test.
SubjectStep(cfg, msg) ==
    IF cfg.subject /\ is_match(SubjectText(msg))
    THEN [match_found |-> MatchFoundInit + 1,
          subject_has_ticket |-> TRUE,
          last_line_has_ticket |-> FALSE]
    ELSE [match_found |-> MatchFoundInit,
          subject_has_ticket |-> FALSE,
          last_line_has_ticket |-> FALSE]

\* for line in body.lines() { ... } from the i-th line on.
RECURSIVE BodyLoop(_, _, _, _, _)
BodyLoop(cfg, lines, last_line, i, st) ==
    IF i > Len(lines) THEN st
    ELSE LET line == lines[i]
             st1 == IF is_match(line)
                    THEN [st EXCEPT
                            !.match_found = @ + 1,
                            !.last_line_has_ticket =
                                IF cfg.body_last_line /\ last_line = Some(line)
                                THEN TRUE ELSE @]
                    ELSE st
         IN BodyLoop(cfg, lines, last_line, i + 1, st1)

\* The locals after the body block.
BodyStep(cfg, msg, st) ==
    IF cfg.body
    THEN LET body == BodyText(msg)
             last_line == LastLine(Lines(body))
         IN BodyLoop(cfg, Lines(body), last_line, 1, st)
    ELSE st

\* A plausible slip: && for ||.
MissingCheck_Both(cfg, st) == st.match_found = 0 /\ (cfg.body /\ cfg.subject)

\* A plausible slip: the guard on the enabled locations is left out.
MissingCheck_NoGuard(cfg, st) == st.match_found = 0

MissingCheck(cfg, st) == st.match_found = 0 /\ (cfg.body \/ cfg.subject)

\* A plausible slip: an off-by-one threshold.
DuplicatedCheck_OffByOne(cfg, st) == cfg.unique /\ st.match_found > 2

DuplicatedCheck(cfg, st) == cfg.unique /\ st.match_found > 1

\* A plausible slip: the subject's ticket does not excuse the body.
LastLineCheck_NoSubject(cfg, msg, st) ==
    /\ cfg.body_last_line
    /\ ~st.last_line_has_ticket
    /\ st.match_found >= 1
    /\ UnwrapOr(msg.body, <<>>) # <<>>

LastLineCheck(cfg, msg, st) ==
    /\ cfg.body_last_line
    /\ ~st.last_line_has_ticket
    /\ st.match_found >= 1
    /\ UnwrapOr(msg.body, <<>>) # <<>>
    /\ ~st.subject_has_ticket

\* fn validate(&self, message: &Message) -> Option<Violation>, with the
\* locals as they stand at return.
validate(cfg, msg) ==
    IF ~RegexNewOk
    THEN [result |-> Some(Violation(cfg, MsgInvalidRegex)),
          match_found |-> MatchFoundInit,
          subject_has_ticket |-> FALSE,
          last_line_has_ticket |-> FALSE]
    ELSE LET st == BodyStep(cfg, msg, SubjectStep(cfg, msg))
             ret == IF MissingCheck(cfg, st)
                        THEN Some(Violation(cfg, MsgMissing))
                    ELSE IF DuplicatedCheck(cfg, st) /\ st.last_line_has_ticket
                        THEN Some(Violation(cfg, MsgDuplicatedBody))
                    ELSE IF DuplicatedCheck(cfg, st)
                        THEN Some(Violation(cfg, MsgDuplicatedEither))
                    ELSE IF LastLineCheck(cfg, msg, st)
                        THEN Some(Violation(cfg, MsgLastLine))
                    ELSE None
         IN [result |-> ret,
             match_found |-> st.match_found,
             subject_has_ticket |-> st.subject_has_ticket,
             last_line_has_ticket |-> st.last_line_has_ticket]

(***************************************************************************)
(* The inputs: every configuration, and the messages whose subject and     *)
(* body are built from a ticket, a word and (in the body) a line feed and   *)
(* a ticket followed by a line feed.                                       *)
(***************************************************************************)
Ticket == <<"#", "A", "-", "1">>
Word == <<"x">>
LineFeed == <<"LF">>

RECURSIVE ChunkTexts(_, _)
ChunkTexts(chunks, n) ==
    IF n = 0 THEN {<<>>}
    ELSE LET shorter == ChunkTexts(chunks, n - 1)
         IN shorter \cup {t \o c : t \in shorter, c \in chunks}

Subjects == {None} \cup {Some(t) : t \in ChunkTexts({Ticket, Word}, MaxSubjectChunks)}
Bodies ==
    {None} \cup {Some(t) : t \in ChunkTexts({Ticket, Word, LineFeed, Ticket \o LineFeed},
                                            MaxBodyChunks)}

Configs ==
    [level : {None} \cup {Some(l) : l \in Levels},
     unique : BOOLEAN,
     subject : BOOLEAN,
     body : BOOLEAN,
     body_last_line : BOOLEAN]

\* impl Default for TicketId
Default ==
    [level |-> Some(LEVEL), unique |-> FALSE, subject |-> TRUE,
     body |-> TRUE, body_last_line |-> TRUE]

Messages == [subject : Subjects, body : Bodies]

Init ==
    /\ self \in Configs
    /\ message \in Messages
    /\ match_found = 0
    /\ subject_has_ticket = FALSE
    /\ last_line_has_ticket = FALSE
    /\ result = None
    /\ calls = 0

\* One call of self.validate(&message).
Validate ==
    /\ calls < MaxCalls
    /\ LET r == validate(self, message)
       IN /\ result' = r.result
          /\ match_found' = r.match_found
          /\ subject_has_ticket' = r.subject_has_ticket
          /\ last_line_has_ticket' = r.last_line_has_ticket
    /\ calls' = calls + 1
    /\ UNCHANGED <<self, message>>

Next == Validate

Spec == Init /\ [][Next]_vars

(***************************************************************************)
(* What the properties below speak of, read off the message and the        *)
(* configuration alone.                                                    *)
(***************************************************************************)
Called == calls >= 1

TextOf(opt) == IF opt = <<>> THEN <<>> ELSE opt[1]

SubjectGiven == TextOf(message.subject)
BodyGiven == TextOf(message.body)
BodyLines == Lines(BodyGiven)

\* The configured override if set, else Error.
ExpectedLevel == IF self.level = <<>> THEN "Error" ELSE self.level[1]

Expect(msg) == <<[level |-> ExpectedLevel, message |-> msg]>>

\* The text after the last line feed of the text, a line feed that ends the
\* text aside.
TextLastLine(text) ==
    LET t == IF Len(text) > 0 /\ text[Len(text)] = "LF"
             THEN SubSeq(text, 1, Len(text) - 1) ELSE text
        idx == {i \in 1..Len(t) : t[i] = "LF"}
    IN IF idx = {} THEN t
       ELSE SubSeq(t, (CHOOSE i \in idx : \A k \in idx : k <= i) + 1, Len(t))

\* The last line of the body that is not empty (<<>> if there is none).
FinalNonEmptyLine ==
    LET idx == {i \in 1..Len(BodyLines) : BodyLines[i] # <<>>}
    IN IF idx = {} THEN <<>>
       ELSE BodyLines[CHOOSE i \in idx : \A k \in idx : k <= i]

SomeLineHasTicket == \E i \in 1..Len(BodyLines) : is_match(BodyLines[i])
NonLastLineHasTicket == \E i \in 1..(Len(BodyLines) - 1) : is_match(BodyLines[i])
LastLineHasTicket == BodyLines # <<>> /\ is_match(BodyLines[Len(BodyLines)])

\* Occurrences of the pattern in a text: the positions a match starts at.
Occurrences(text) == Cardinality({i \in 1..Len(text) : MatchAt(text, i)})

\* One for a matching subject when subject is enabled, plus one per matching
\* body line when body is enabled.
MatchCount ==
    (IF self.subject /\ is_match(SubjectGiven) THEN 1 ELSE 0)
    + (IF self.body
       THEN Cardinality({i \in 1..Len(BodyLines) : is_match(BodyLines[i])})
       ELSE 0)

C1_Case ==
    /\ Called
    /\ self.body /\ self.body_last_line /\ ~self.unique
    /\ ~(self.subject /\ is_match(SubjectGiven))
    /\ SomeLineHasTicket

\* C1 as stated: with body and body_last_line enabled and unique disabled, no
\* ticket from the subject and a ticket on some body line, validate returns
\* None if and only if the body's final non-empty line contains a ticket
\* (blank lines after that line do not matter).
C1_FinalNonEmptyLine ==
    C1_Case => (result = None <=> is_match(FinalNonEmptyLine))

\* C1 amended: in the same case validate returns None if and only if the
\* body's last line contains a ticket, the last line being the text after the
\* body's last line feed, one line feed that ends the body aside; a blank line
\* after the ticket's line is the last line and fails the requirement.
C1_LastLine ==
    C1_Case => (result = None <=> is_match(TextLastLine(BodyGiven)))

C1_Witness ==
    /\ C1_Case
    /\ is_match(FinalNonEmptyLine)
    /\ TextLastLine(BodyGiven) = <<>>
    /\ result = Expect(MsgLastLine)

\* C2: with unique, subject and body enabled, validate returns a violation
\* whenever the pattern occurs more than once in total in the subject text
\* and the body text (two occurrences in the subject alone, or on one body
\* line, included).
C2_UniqueOccurrences ==
    (/\ Called
     /\ self.unique /\ self.subject /\ self.body
     /\ Occurrences(SubjectGiven) + Occurrences(BodyGiven) > 1)
    => result # None

C3_Case ==
    /\ Called
    /\ self.body /\ self.body_last_line /\ ~self.unique
    /\ ~is_match(SubjectGiven)
    /\ NonLastLineHasTicket
    /\ ~LastLineHasTicket

\* C3: with body and body_last_line enabled and unique disabled, a subject
\* without ticket, a ticket on a non-last body line and none on the last
\* line, validate returns the one 'should be on last line' violation at the
\* override level if set, else Error.
C3_LastLineViolation == C3_Case => result = Expect(MsgLastLine)

C3_Witness ==
    /\ C3_Case
    /\ self.level = <<"Warning">>
    /\ message.subject = None
    /\ result = <<[level |-> "Warning", message |-> MsgLastLine]>>

C4_Case ==
    /\ Called
    /\ self.subject \/ self.body
    /\ self.subject => ~is_match(SubjectGiven)
    /\ self.body => ~SomeLineHasTicket

\* C4: when a location is enabled and no enabled location holds a ticket,
\* validate returns the 'missing' violation at the override level if set,
\* else Error, whatever unique and body_last_line are and whatever the
\* subject and the body are.
C4_Missing == C4_Case => result = Expect(MsgMissing)

C4_Witness ==
    /\ C4_Case
    /\ self.unique /\ self.body_last_line
    /\ ~self.subject /\ is_match(SubjectGiven)
    /\ BodyGiven # <<>>
    /\ self.level = None
    /\ result = <<[level |-> "Error", message |-> MsgMissing]>>

C5_Case == Called /\ self.unique /\ MatchCount > 1

\* C5: with unique enabled and a match count above 1, validate returns a
\* 'duplicated' violation: the 'in body' wording when body_last_line is
\* enabled and the last body line has a ticket, the 'in either subject or
\* body' wording otherwise; the last-line check never gets its turn.
C5_Duplicated ==
    C5_Case =>
        result = Expect(IF self.body_last_line /\ LastLineHasTicket
                        THEN MsgDuplicatedBody
                        ELSE MsgDuplicatedEither)

\* Two ticket lines, no ticket from the subject, none on the last line: the
\* last-line check would fire if the duplicate check did not come first.
C5_Witness ==
    /\ C5_Case
    /\ self.body_last_line
    /\ ~is_match(SubjectGiven)
    /\ ~LastLineHasTicket
    /\ result = Expect(MsgDuplicatedEither)

C6_Case == Called /\ ~self.subject /\ ~self.body

\* C6: with subject and body both disabled validate returns None for every
\* message and every unique, body_last_line and level.
C6_BothDisabled == C6_Case => result = None

C6_Witness ==
    /\ C6_Case
    /\ self.unique /\ self.body_last_line
    /\ is_match(SubjectGiven) /\ NonLastLineHasTicket /\ ~LastLineHasTicket
    /\ result = None

C7_Case ==
    /\ Called
    /\ self.subject /\ ~self.unique
    /\ is_match(SubjectGiven)

\* C7: with subject enabled and unique disabled, a ticket in the subject
\* makes validate return None whatever the body and the body and
\* body_last_line settings.
C7_SubjectTicket == C7_Case => result = None

C7_Witness ==
    /\ C7_Case
    /\ self = Default
    /\ NonLastLineHasTicket /\ ~LastLineHasTicket
    /\ result = None

C8_Case ==
    /\ Called
    /\ self.body
    /\ ~is_match(SubjectGiven)
    /\ LastLineHasTicket
    /\ ~NonLastLineHasTicket

\* C8: with body enabled, a message whose only ticket is on the last line of
\* the body makes validate return None for every unique and body_last_line.
C8_OnlyLastLine == C8_Case => result = None

C8_Witness ==
    /\ C8_Case
    /\ self.unique /\ self.body_last_line
    /\ Len(BodyLines) > 1
    /\ result = None

C9_Case == Called /\ message.body \in {None, Some(<<>>)}

\* The same message with the body absent for empty and empty for absent.
C9_Twin ==
    [message EXCEPT !.body = IF message.body = None THEN Some(<<>>) ELSE None]

\* C9: a message with an empty body gets the result of the same message with
\* an absent body, and neither gets a 'should be on last line' violation.
C9_EmptyAsAbsent ==
    C9_Case =>
        /\ result = validate(self, C9_Twin).result
        /\ result # None => result[1].message # MsgLastLine

C9_Witness ==
    /\ C9_Case
    /\ message.body = Some(<<>>)
    /\ self.body /\ self.body_last_line /\ self.subject
    /\ is_match(SubjectGiven)
    /\ result = validate(self, C9_Twin).result

\* C10: every call of validate with the same message and configuration
\* returns what the call before it returned, and no call changes the
\* configuration or the message.
C10_Idempotent ==
    [][/\ self' = self
       /\ message' = message
       /\ Called => result' = result]_vars

C10_Witness ==
    /\ calls >= 2
    /\ self.unique
    /\ match_found = 1
    /\ result = None

====
